---- MODULE Spec2Model ----
(***************************************************************************)
(* Day 17 of advent-of-code-2023: the run-length constrained shortest path *)
(* search (src/17/src/main.rs) over a HeatLossMap                           *)
(* (src/17/src/heat_loss_map.rs).                                           *)
(*                                                                         *)
(* Spec      : one call of shortest_path, one action per loop iteration.    *)
(* SpecFn    : one call of the pure function get_next_states on drawn       *)
(*             inputs.                                                      *)
(* SpecAgain : two calls of shortest_path with the same arguments.          *)
(* SpecPair  : two calls of shortest_path on one map, interleaved.          *)
(* SpecParse : HeatLossMap::from_str on a text, then HeatLossMap::get.      *)
(* SpecHand  : day 7 (src/7/src/main.rs), two hands parsed and compared.    *)
(* SpecNet   : day 20 (src/20/src/main.rs), a ModuleNetwork parsed, its     *)
(*             button pushed and the network reset.                         *)
(***************************************************************************)
EXTENDS Integers, Sequences, FiniteSets, Bags, TLC

VARIABLES
    heat_loss_map,          \* the HeatLossMap argument: [values, width, height]
    start,                  \* the start argument
    goal,                   \* the goal argument
    min_blocks_straight,    \* u8 argument
    max_blocks_straight,    \* u8 argument
    dist,                   \* HashMap<State, HeatLossAmount>, keyed by StateKey
    heap,                   \* MinPriorityQueue<State>: a bag of State values
    state,                  \* the State popped by the current loop iteration
    next_states,            \* the Vec<State> get_next_states returned for it
    expanded,               \* the iteration reached the for loop of main.rs:200
    pops,                   \* how many times heap.pop() has yielded a state
    closed,                 \* history: the states popped and expanded so far
    pc,                     \* position in the code
    result,                 \* the value shortest_path returned
    earlier,                \* the value an earlier call with these arguments returned
    other,                  \* a second shortest_path call on the same HeatLossMap
    input,                  \* the text handed to from_str, a sequence of lines
    parsed,                 \* what from_str made of it
    lookup,                 \* the position handed to HeatLossMap::get and its outcome
    hands,                  \* two day 7 hands
    ordering,               \* what Ord::cmp makes of them
    module_network,         \* the day 20 ModuleNetwork
    reset_done              \* ModuleNetwork::reset has been called

vars == <<heat_loss_map, start, goal, min_blocks_straight, max_blocks_straight,
          dist, heap, state, next_states, expanded, pops, closed, pc, result,
          earlier, other, input, parsed, lookup, hands, ordering,
          module_network, reset_done>>

(* The variables of day 20 *)
net == <<module_network, reset_done>>

(* The variables of the second call *)
calls == <<earlier, other>>

(* The variables of the parser and of the day 7 hands *)
texts == <<input, parsed, lookup, hands, ordering>>

----------------------------------------------------------------------------
(* Bounds of the model *)

MaxWidth == 3
MaxHeight == 3
MaxCost == 2
MaxSlope == 1
MaxMin == 2
MaxMax == 3
MaxFreeCells == 4
MaxCorridor == 4
MaxLines == 3
MaxLineLen == 2
MaxPushes == 3
MaxPulses == 24

(* Program constants *)

U8Max == 255
NUM_CARDS_IN_HAND == 5

----------------------------------------------------------------------------
(* Option values *)

None == [none |-> TRUE]
Some(v) == [some |-> v]

(* Option<Direction>::None, the direction of the initial state (main.rs:184) *)
NoDirection == "NoDirection"

(* Direction (main.rs:62-68) *)
Direction == {"Up", "Left", "Down", "Right"}

(* Position (heat_loss_map.rs:3-7) *)
Pos(px, py) == [y |-> py, x |-> px]

----------------------------------------------------------------------------
(* HeatLossMap (heat_loss_map.rs:11-40) *)

get_index(map, position) == position.y * map.width + position.x

get(map, position) ==
    IF position.x >= map.width \/ position.y >= map.height
    THEN None
    ELSE Some(map.values[get_index(map, position) + 1])

----------------------------------------------------------------------------
(* get_adjacent_position (main.rs:70-101) *)

get_adjacent_position(position, direction) ==
    CASE direction = "Down"  -> Some(Pos(position.x, position.y + 1))
      [] direction = "Left"  -> IF position.x = 0 THEN None
                                ELSE Some(Pos(position.x - 1, position.y))
      [] direction = "Up"    -> IF position.y = 0 THEN None
                                ELSE Some(Pos(position.x, position.y - 1))
      [] direction = "Right" -> Some(Pos(position.x + 1, position.y))

----------------------------------------------------------------------------
(* State (main.rs:131-169) *)

MkState(p, t, d, r) ==
    [position |-> p, total_heat_loss |-> t, direction |-> d,
     distance_in_current_direction |-> r]

(* Mutant of StateKey: the accumulated cost is part of the identity *)
StateKey_WithCost(s) == s

(* PartialEq / Hash of State: position, direction and distance only *)
StateKey(s) ==
    [position |-> s.position, direction |-> s.direction,
     distance_in_current_direction |-> s.distance_in_current_direction]

NoState == None

----------------------------------------------------------------------------
(* get_next_states (main.rs:220-290) *)

(* Mutant of next_turns: going Left also offers Right, the way back *)
next_turns_Reversing(direction) ==
    CASE direction = "Up"    -> << <<"Left", FALSE>>, <<"Up", TRUE>>, <<"Right", FALSE>> >>
      [] direction = "Left"  -> << <<"Right", FALSE>>, <<"Left", TRUE>>, <<"Up", FALSE>> >>
      [] direction = "Down"  -> << <<"Right", FALSE>>, <<"Down", TRUE>>, <<"Left", FALSE>> >>
      [] direction = "Right" -> << <<"Down", FALSE>>, <<"Right", TRUE>>, <<"Up", FALSE>> >>
      [] direction = NoDirection -> << <<"Left", TRUE>>, <<"Up", TRUE>>,
                                       <<"Right", TRUE>>, <<"Down", TRUE>> >>

(* main.rs:226-253: the (turn, is_straight) candidates, in the code's order *)
next_turns(direction) ==
    CASE direction = "Up"    -> << <<"Left", FALSE>>, <<"Up", TRUE>>, <<"Right", FALSE>> >>
      [] direction = "Left"  -> << <<"Down", FALSE>>, <<"Left", TRUE>>, <<"Up", FALSE>> >>
      [] direction = "Down"  -> << <<"Right", FALSE>>, <<"Down", TRUE>>, <<"Left", FALSE>> >>
      [] direction = "Right" -> << <<"Down", FALSE>>, <<"Right", TRUE>>, <<"Up", FALSE>> >>
      [] direction = NoDirection -> << <<"Left", TRUE>>, <<"Up", TRUE>>,
                                   <<"Right", TRUE>>, <<"Down", TRUE>> >>

(* Mutant of TurnBlocked: a run of exactly min_run cells still blocks the turn *)
TurnBlocked_Inclusive(s, is_straight, min_run) ==
    ~is_straight /\ s.distance_in_current_direction <= min_run

(* Mutant of TurnBlocked: the minimum gates every move, the first included *)
TurnBlocked_AnyMove(s, is_straight, min_run) ==
    s.distance_in_current_direction < min_run

(* main.rs:258: a turn is skipped while the run is shorter than the minimum *)
TurnBlocked(s, is_straight, min_run) ==
    ~is_straight /\ s.distance_in_current_direction < min_run

(* main.rs:267: the branch that increments the run length *)
Increments(s, is_straight) == s.direction = NoDirection \/ is_straight

(* Mutant of NextDistance: every move starts a new run *)
NextDistance_Reset(s, is_straight) == 1

(* main.rs:267-271: the successor's run length; the u8 sum of a build       *)
(* without overflow checks wraps                                            *)
NextDistance(s, is_straight) ==
    IF Increments(s, is_straight)
    THEN (s.distance_in_current_direction + 1) % (U8Max + 1)
    ELSE 1

(* Mutant of ExceedsMax: a run may reach the cap itself *)
ExceedsMax_Strict(distance, max_run) == distance > max_run

(* main.rs:273: the successor is dropped when its run length reaches the cap *)
ExceedsMax(distance, max_run) == distance >= max_run

(* Mutant of EnteredCell: a destination the map does not hold costs nothing *)
EnteredCell_Unpruned(map, s, turn) ==
    LET adjacent == get_adjacent_position(s.position, turn)
    IN  IF adjacent = None THEN None
        ELSE IF get(map, adjacent.some) = None
        THEN Some([position |-> adjacent.some, current_g_score |-> 0])
        ELSE Some([position |-> adjacent.some,
                   current_g_score |-> get(map, adjacent.some).some])

(* Mutant of EnteredCell: the move is charged the cell it leaves *)
EnteredCell_Left(map, s, turn) ==
    LET adjacent == get_adjacent_position(s.position, turn)
    IN  IF adjacent = None THEN None
        ELSE IF get(map, adjacent.some) = None THEN None
        ELSE Some([position |-> adjacent.some,
                   current_g_score |-> IF get(map, s.position) = None THEN 0
                                       ELSE get(map, s.position).some])

(* main.rs:262-263: the cell entered and its heat loss, when both exist *)
EnteredCell(map, s, turn) ==
    LET adjacent == get_adjacent_position(s.position, turn)
    IN  IF adjacent = None THEN None
        ELSE IF get(map, adjacent.some) = None THEN None
        ELSE Some([position |-> adjacent.some,
                   current_g_score |-> get(map, adjacent.some).some])

(* main.rs:257-286: one pass of the loop body, <<>> when it continues *)
Candidate(map, s, turn, is_straight, min_run, max_run) ==
    IF TurnBlocked(s, is_straight, min_run) THEN <<>>
    ELSE LET cell == EnteredCell(map, s, turn)
         IN  IF cell = None THEN <<>>
             ELSE IF ExceedsMax(NextDistance(s, is_straight), max_run) THEN <<>>
             ELSE << MkState(cell.some.position,
                             s.total_heat_loss + cell.some.current_g_score,
                             turn,
                             NextDistance(s, is_straight)) >>

RECURSIVE CollectStates(_, _, _, _, _, _)
CollectStates(map, s, turns, i, min_run, max_run) ==
    IF i > Len(turns) THEN <<>>
    ELSE Candidate(map, s, turns[i][1], turns[i][2], min_run, max_run)
         \o CollectStates(map, s, turns, i + 1, min_run, max_run)

get_next_states(map, s, min_run, max_run) ==
    CollectStates(map, s, next_turns(s.direction), 1, min_run, max_run)

(* main.rs:268: the u8 sum overflows; a build with overflow checks panics    *)
(* there. (The u32 sum of main.rs:264 is a sum of at most one digit a cell   *)
(* entered and stays far below 2^32 on the maps drawn here.)                 *)
CandidateOverflows(map, s, turn, is_straight, min_run) ==
    /\ ~TurnBlocked(s, is_straight, min_run)
    /\ EnteredCell(map, s, turn) # None
    /\ Increments(s, is_straight)
    /\ s.distance_in_current_direction + 1 > U8Max

Overflows(map, s, min_run) ==
    \E i \in 1..Len(next_turns(s.direction)) :
        CandidateOverflows(map, s, next_turns(s.direction)[i][1],
                           next_turns(s.direction)[i][2], min_run)

----------------------------------------------------------------------------
(* MinPriorityQueue (main.rs:103-122) and the Ord of State (main.rs:139-143) *)

(* Mutant of StateLe: the order of a max-heap, Reverse left out *)
StateLe_MaxHeap(a, b) == a.total_heat_loss >= b.total_heat_loss

(* Ord for State compares total_heat_loss alone *)
StateLe(a, b) == a.total_heat_loss <= b.total_heat_loss

(* Mutant of push: the value is lost *)
push_Dropped(h, value) == h

(* main.rs:108-110: BinaryHeap::push(Reverse(value)) *)
push(h, value) == h (+) SetToBag({value})

(* Mutant of PopChoices: the queue yields its entries in no order *)
PopChoices_Unordered(h) == BagToSet(h)

(* Mutant of AfterPop: the entry is read and left in the queue *)
AfterPop_Peek(h, s) == h

(* pop: BinaryHeap<Reverse<State>> yields an entry no other entry is below;  *)
(* which of several equal entries it yields is left to the heap             *)
PopChoices(h) ==
    {s \in BagToSet(h) : \A t \in BagToSet(h) : StateLe(s, t)}

(* pop removes the entry it yields *)
AfterPop(h, s) == h (-) SetToBag({s})

----------------------------------------------------------------------------
(* shortest_path (main.rs:171-218) *)

(* main.rs:181-186 *)
initial_state(start_position) == MkState(start_position, 0, NoDirection, 0)

(* Mutant of DistInsert: the entry is not written *)
DistInsert_Skip(d, s, v) == d

(* HashMap::insert under the State key *)
DistInsert(d, s, v) ==
    [k \in DOMAIN d \cup {StateKey(s)} |-> IF k = StateKey(s) THEN v ELSE d[k]]

(* Mutant of IsGoalState: any run ends the search on the goal *)
IsGoalState_AnyRun(s, goal_position, min_run) == s.position = goal_position

(* Mutant of IsGoalState: the run must exceed the minimum *)
IsGoalState_Strict(s, goal_position, min_run) ==
    s.position = goal_position /\ s.distance_in_current_direction > min_run

(* main.rs:192 *)
IsGoalState(s, goal_position, min_run) ==
    s.position = goal_position /\ s.distance_in_current_direction >= min_run

(* main.rs:196 *)
IsStale(s, d) == s.total_heat_loss > d[StateKey(s)]

(* Mutant of NotImproved: a successor whose key the table holds is skipped   *)
(* only when it costs more, so one of equal cost is recorded and pushed again *)
NotImproved_Above(next_state, d) ==
    /\ StateKey(next_state) \in DOMAIN d
    /\ next_state.total_heat_loss > d[StateKey(next_state)]

(* Mutant of NotImproved: every successor is recorded *)
NotImproved_Never(next_state, d) == FALSE

(* main.rs:206-210: the successor is skipped when the table holds a cost     *)
(* that is not above its own                                                *)
NotImproved(next_state, d) ==
    /\ StateKey(next_state) \in DOMAIN d
    /\ next_state.total_heat_loss >= d[StateKey(next_state)]

(* main.rs:200-214: the for loop over the successors, from index i on *)
RECURSIVE Relax(_, _, _, _)
Relax(ns, i, d, h) ==
    IF i > Len(ns) THEN [dist |-> d, heap |-> h]
    ELSE IF NotImproved(ns[i], d) THEN Relax(ns, i + 1, d, h)
    ELSE Relax(ns, i + 1, DistInsert(d, ns[i], ns[i].total_heat_loss), push(h, ns[i]))

----------------------------------------------------------------------------
(* The arguments of a call *)

(* A parsed map (heat_loss_map.rs:66-75): the rows flattened, one digit a   *)
(* cell; the cell at column x of row y costs (a + b * (x + 2 y)) modulo      *)
(* MaxCost + 1                                                              *)
MakeMap(w, h, a, b) ==
    [values |-> [i \in 1..(w * h) |->
                    (a + b * (((i - 1) % w) + 2 * ((i - 1) \div w))) % (MaxCost + 1)],
     width  |-> w,
     height |-> h]

Cells(map) == map.width * map.height

(* Maps of one row or of one column, of up to MaxCorridor cells *)
Corridors ==
    {MakeMap(n, 1, a, b) : n \in 1..MaxCorridor, a \in 0..MaxCost, b \in 0..MaxSlope}
    \cup {MakeMap(1, n, a, b) : n \in 1..MaxCorridor, a \in 0..MaxCost,
                                b \in 0..MaxSlope}

(* Every cost pattern on the maps of at most MaxFreeCells cells; on the      *)
(* larger maps the all-ones pattern and the sloped patterns; the corridors   *)
Maps ==
    {m \in {MakeMap(w, h, a, b) : w \in 1..MaxWidth, h \in 1..MaxHeight,
                                  a \in 0..MaxCost, b \in 0..MaxSlope} :
        \/ Cells(m) <= MaxFreeCells
        \/ \E i \in 1..Cells(m) : m.values[i] # m.values[1]
        \/ m.values[1] = 1}
    \cup Corridors

(* The cells of the map, and the position just past the right end of row 0 *)
GridPositions(map) == {Pos(px, py) : px \in 0..(map.width - 1), py \in 0..(map.height - 1)}

Positions(map) == GridPositions(map) \cup {Pos(map.width, 0)}

(* main.rs:27-31: main searches from the top left to the bottom right cell *)
lava_pool_position == Pos(0, 0)

machine_parts_factory_position(map) == Pos(map.width - 1, map.height - 1)

(* The (start, goal) pairs of the calls: any two positions on the maps of at *)
(* most MaxFreeCells cells; on the larger maps main's pair and the pair that *)
(* ends where it starts                                                      *)
Endpoints(map) ==
    IF Cells(map) <= MaxFreeCells
    THEN Positions(map) \X Positions(map)
    ELSE {<<lava_pool_position, machine_parts_factory_position(map)>>,
          <<lava_pool_position, lava_pool_position>>}

InGrid(map, position) == position.x < map.width /\ position.y < map.height

TypeOK ==
    /\ pc \in {"start", "loop", "returned", "panic", "call", "fn_returned",
               "parse", "parsed", "looked_up",
               "hands", "parsed_hands", "joker_hands", "compared",
               "network_text", "network", "running"}
    /\ expanded \in BOOLEAN
    /\ pops \in Nat
    /\ pc \in {"start", "loop", "returned", "call", "fn_returned"}
          => heat_loss_map \in Maps
    /\ min_blocks_straight \in 0..U8Max
    /\ max_blocks_straight \in 0..U8Max
    /\ IsABag(heap)

(* No earlier call and no second call *)
SingleCall == earlier = None /\ other = None

(* Nothing to parse and no hands *)
NoText ==
    /\ input = <<>>
    /\ parsed = None
    /\ lookup = None
    /\ hands = <<>>
    /\ ordering = None

Init ==
    /\ heat_loss_map \in Maps
    /\ \E e \in Endpoints(heat_loss_map) : start = e[1] /\ goal = e[2]
    /\ min_blocks_straight \in 0..MaxMin
    /\ max_blocks_straight \in 0..MaxMax
    /\ dist = <<>>
    /\ heap = EmptyBag
    /\ state = NoState
    /\ next_states = <<>>
    /\ expanded = FALSE
    /\ pops = 0
    /\ closed = {}
    /\ module_network = None
    /\ reset_done = FALSE
    /\ pc = "start"
    /\ result = None
    /\ SingleCall
    /\ NoText

args == <<heat_loss_map, start, goal, min_blocks_straight, max_blocks_straight>>

(* main.rs:178-189 *)
Begin ==
    /\ pc = "start"
    /\ dist' = DistInsert(<<>>, initial_state(start), 0)
    /\ heap' = push(EmptyBag, initial_state(start))
    /\ pc' = "loop"
    /\ UNCHANGED <<args, state, next_states, expanded, pops, closed, result, calls,
                   texts, net>>

(* main.rs:191-215: one iteration of the while loop *)
LoopIteration ==
    /\ pc = "loop"
    /\ \E s \in PopChoices(heap) :
        /\ state' = s
        /\ pops' = pops + 1
        /\ IF IsGoalState(s, goal, min_blocks_straight)
           THEN /\ result' = Some(s.total_heat_loss)
                /\ pc' = "returned"
                /\ heap' = AfterPop(heap, s)
                /\ next_states' = <<>>
                /\ expanded' = FALSE
                /\ UNCHANGED <<dist, closed>>
           ELSE IF StateKey(s) \notin DOMAIN dist
           THEN /\ pc' = "panic"
                /\ heap' = AfterPop(heap, s)
                /\ next_states' = <<>>
                /\ expanded' = FALSE
                /\ UNCHANGED <<dist, result, closed>>
           ELSE IF IsStale(s, dist)
           THEN /\ heap' = AfterPop(heap, s)
                /\ next_states' = <<>>
                /\ expanded' = FALSE
                /\ UNCHANGED <<dist, pc, result, closed>>
           ELSE \E build \in (IF Overflows(heat_loss_map, s, min_blocks_straight)
                              THEN {"checked", "wrapping"} ELSE {"wrapping"}) :
                IF build = "checked"
                THEN /\ pc' = "panic"
                     /\ heap' = AfterPop(heap, s)
                     /\ next_states' = <<>>
                     /\ expanded' = FALSE
                     /\ UNCHANGED <<dist, result, closed>>
                ELSE LET ns == get_next_states(heat_loss_map, s, min_blocks_straight,
                                               max_blocks_straight)
                         r  == Relax(ns, 1, dist, AfterPop(heap, s))
                     IN  /\ next_states' = ns
                         /\ expanded' = TRUE
                         /\ dist' = r.dist
                         /\ heap' = r.heap
                         /\ closed' = closed \cup {s}
                         /\ UNCHANGED <<pc, result>>
    /\ UNCHANGED <<args, calls, texts, net>>

(* main.rs:191 and 217: the queue is empty *)
QueueEmpty ==
    /\ pc = "loop"
    /\ heap = EmptyBag
    /\ result' = None
    /\ pc' = "returned"
    /\ UNCHANGED <<args, dist, heap, state, next_states, expanded, pops, closed,
                   calls, texts, net>>

Next == Begin \/ LoopIteration \/ QueueEmpty

Spec == Init /\ [][Next]_vars

----------------------------------------------------------------------------
(* Two calls of shortest_path with the same arguments, one after the other *)

(* The first call has returned; its locals (main.rs:178-179) are dropped and *)
(* the same arguments are passed again                                       *)
CallAgain ==
    /\ pc = "returned"
    /\ earlier = None
    /\ earlier' = Some(result)
    /\ dist' = <<>>
    /\ heap' = EmptyBag
    /\ state' = NoState
    /\ next_states' = <<>>
    /\ expanded' = FALSE
    /\ pops' = 0
    /\ closed' = {}
    /\ result' = None
    /\ pc' = "start"
    /\ UNCHANGED <<args, other, texts, net>>

NextAgain == Begin \/ LoopIteration \/ QueueEmpty \/ CallAgain

SpecAgain == Init /\ [][NextAgain]_vars

----------------------------------------------------------------------------
(* Two calls of shortest_path on the same HeatLossMap, with different run    *)
(* bounds, their loop iterations interleaved in any order. The first call's  *)
(* locals are dist and heap, the second call's are the fields of other.      *)

OtherCall(min_run, max_run) ==
    [min_blocks_straight |-> min_run,
     max_blocks_straight |-> max_run,
     dist |-> <<>>,
     heap |-> EmptyBag,
     pc |-> "start",
     result |-> None]

InitPair ==
    /\ heat_loss_map \in {m \in Maps : Cells(m) <= MaxFreeCells}
    /\ start = lava_pool_position
    /\ goal = machine_parts_factory_position(heat_loss_map)
    /\ min_blocks_straight \in 0..MaxMin
    /\ max_blocks_straight \in 0..MaxMax
    /\ dist = <<>>
    /\ heap = EmptyBag
    /\ state = NoState
    /\ next_states = <<>>
    /\ expanded = FALSE
    /\ pops = 0
    /\ closed = {}
    /\ module_network = None
    /\ reset_done = FALSE
    /\ pc = "start"
    /\ result = None
    /\ earlier = None
    /\ \E min_run \in 0..MaxMin, max_run \in 0..MaxMax :
          /\ <<min_run, max_run>> # <<min_blocks_straight, max_blocks_straight>>
          /\ other = OtherCall(min_run, max_run)
    /\ NoText

(* Mutant of OwnTable: the second call looks its states up in the table of  *)
(* the first                                                                *)
OwnTable_Shared(call) == dist

(* main.rs:178: dist is a local of the call *)
OwnTable(call) == call.dist

(* main.rs:178-189 *)
OtherBegin ==
    /\ other # None
    /\ other.pc = "start"
    /\ other' = [other EXCEPT !.dist = DistInsert(<<>>, initial_state(start), 0),
                              !.heap = push(EmptyBag, initial_state(start)),
                              !.pc = "loop"]
    /\ UNCHANGED <<args, dist, heap, state, next_states, expanded, pops, closed, pc,
                   result, earlier, texts, net>>

(* main.rs:191-215: one iteration of the second call's while loop *)
OtherLoopIteration ==
    /\ other # None
    /\ other.pc = "loop"
    /\ \E s \in PopChoices(other.heap) :
       \E build \in (IF Overflows(heat_loss_map, s, other.min_blocks_straight)
                      THEN {"checked", "wrapping"} ELSE {"wrapping"}) :
        other' =
            IF IsGoalState(s, goal, other.min_blocks_straight)
            THEN [other EXCEPT !.result = Some(s.total_heat_loss),
                               !.pc = "returned",
                               !.heap = AfterPop(other.heap, s)]
            ELSE IF StateKey(s) \notin DOMAIN OwnTable(other)
            THEN [other EXCEPT !.pc = "panic", !.heap = AfterPop(other.heap, s)]
            ELSE IF IsStale(s, OwnTable(other))
            THEN [other EXCEPT !.heap = AfterPop(other.heap, s)]
            ELSE IF build = "checked"
            THEN [other EXCEPT !.pc = "panic", !.heap = AfterPop(other.heap, s)]
            ELSE LET ns == get_next_states(heat_loss_map, s, other.min_blocks_straight,
                                           other.max_blocks_straight)
                     r  == Relax(ns, 1, OwnTable(other), AfterPop(other.heap, s))
                 IN  [other EXCEPT !.dist = r.dist, !.heap = r.heap]
    /\ UNCHANGED <<args, dist, heap, state, next_states, expanded, pops, closed, pc,
                   result, earlier, texts, net>>

(* main.rs:191 and 217: the second call's queue is empty *)
OtherQueueEmpty ==
    /\ other # None
    /\ other.pc = "loop"
    /\ other.heap = EmptyBag
    /\ other' = [other EXCEPT !.result = None, !.pc = "returned"]
    /\ UNCHANGED <<args, dist, heap, state, next_states, expanded, pops, closed, pc,
                   result, earlier, texts, net>>

NextPair ==
    \/ Begin
    \/ LoopIteration
    \/ QueueEmpty
    \/ OtherBegin
    \/ OtherLoopIteration
    \/ OtherQueueEmpty

SpecPair == InitPair /\ [][NextPair]_vars

----------------------------------------------------------------------------
(* HeatLossMap::from_str (heat_loss_map.rs:47-77) and HeatLossMap::get       *)
(* (heat_loss_map.rs:31-39) on the map it built. The text is modelled by the *)
(* pieces s.split('\n') yields, each a sequence of characters.               *)

InputChars == {"1", "2", "x"}

(* heat_loss_map.rs:60: c.to_string().parse::<u32>() of a single character *)
ParseChar(c) ==
    CASE c = "0" -> Some(0) [] c = "1" -> Some(1) [] c = "2" -> Some(2)
      [] c = "3" -> Some(3) [] c = "4" -> Some(4) [] c = "5" -> Some(5)
      [] c = "6" -> Some(6) [] c = "7" -> Some(7) [] c = "8" -> Some(8)
      [] c = "9" -> Some(9) [] OTHER -> None

(* heat_loss_map.rs:51-55: the pieces that are not empty *)
NonEmptyLines(s) == SelectSeq(s, LAMBDA line : line # <<>>)

(* heat_loss_map.rs:59-61: a line whose characters all parse *)
LineParses(line) == \A i \in 1..Len(line) : ParseChar(line[i]) # None

ParseLine(line) == [i \in 1..Len(line) |-> ParseChar(line[i]).some]

(* heat_loss_map.rs:69: rows.into_iter().flatten() *)
RECURSIVE Flatten(_)
Flatten(rows) ==
    IF rows = <<>> THEN <<>> ELSE Head(rows) \o Flatten(Tail(rows))

Ok(v) == [ok |-> v]

Err(e) == [err |-> e]

Panic(m) == [panic |-> m]

(* heat_loss_map.rs:50-76 *)
from_str(s) ==
    LET lines == NonEmptyLines(s)
    IN  IF \E i \in 1..Len(lines) : ~LineParses(lines[i])
        THEN Err("ParseHeatLossAmountError")
        ELSE LET rows == [i \in 1..Len(lines) |-> ParseLine(lines[i])]
             IN  IF rows = <<>>
                 THEN Panic("called Option::unwrap() on a None value")
                 ELSE Ok([values |-> Flatten(rows),
                          width |-> Len(rows[1]),
                          height |-> Len(rows)])

(* heat_loss_map.rs:38: self.values[lookup_index] past the end of values *)
IndexOutOfBounds(map, position) ==
    InGrid(map, position) /\ get_index(map, position) >= Len(map.values)

Texts ==
    UNION {[1..n -> UNION {[1..k -> InputChars] : k \in 0..MaxLineLen}] :
           n \in 1..MaxLines}

LookupPositions == {Pos(px, py) : px \in 0..MaxLineLen, py \in 0..MaxLines}

InitParse ==
    /\ input \in Texts
    /\ parsed = None
    /\ lookup = None
    /\ hands = <<>>
    /\ ordering = None
    /\ heat_loss_map = None
    /\ start = lava_pool_position
    /\ goal = lava_pool_position
    /\ min_blocks_straight = 0
    /\ max_blocks_straight = 0
    /\ dist = <<>>
    /\ heap = EmptyBag
    /\ state = NoState
    /\ next_states = <<>>
    /\ expanded = FALSE
    /\ pops = 0
    /\ closed = {}
    /\ module_network = None
    /\ reset_done = FALSE
    /\ pc = "parse"
    /\ result = None
    /\ SingleCall

(* main.rs:24: input.parse().unwrap() *)
Parse ==
    /\ pc = "parse"
    /\ parsed' = from_str(input)
    /\ IF "ok" \in DOMAIN from_str(input)
       THEN heat_loss_map' = from_str(input).ok /\ pc' = "parsed"
       ELSE pc' = "panic" /\ UNCHANGED heat_loss_map
    /\ UNCHANGED <<start, goal, min_blocks_straight, max_blocks_straight, dist, heap,
                   state, next_states, expanded, pops, closed, result, calls, input,
                   lookup, hands, ordering, net>>

(* heat_loss_map.rs:31-39: one call of get on the parsed map *)
Get ==
    /\ pc = "parsed"
    /\ \E position \in LookupPositions :
        IF IndexOutOfBounds(heat_loss_map, position)
        THEN /\ lookup' = [position |-> position, value |-> Panic("index out of bounds")]
             /\ pc' = "panic"
        ELSE /\ lookup' = [position |-> position, value |-> get(heat_loss_map, position)]
             /\ pc' = "looked_up"
    /\ UNCHANGED <<args, dist, heap, state, next_states, expanded, pops, closed,
                   result, calls, input, parsed, hands, ordering, net>>

NextParse == Parse \/ Get

SpecParse == InitParse /\ [][NextParse]_vars

----------------------------------------------------------------------------
(* Day 7 (src/7/src/main.rs): Hand, its parser and its derived ordering *)

(* enum Label (main.rs:108-123) in declaration order, the order derive(Ord)  *)
(* compares by                                                               *)
Label ==
    <<"Joker", "Two", "Three", "Four", "Five", "Six", "Seven", "Eight", "Nine",
      "Ten", "Jack", "Queen", "King", "Ace">>

(* enum HandType (main.rs:97-105) in declaration order *)
HandType ==
    <<"HighCard", "OnePair", "TwoPair", "ThreeOfAKind", "FullHouse", "FourOfAKind",
      "FiveOfAKind">>

(* The discriminant of a variant: its place in the declaration *)
Discriminant(variants, v) == CHOOSE i \in 1..Len(variants) : variants[i] = v

(* main.rs:133-150 *)
try_from(value) ==
    CASE value = "2" -> Ok("Two")   [] value = "3" -> Ok("Three")
      [] value = "4" -> Ok("Four")  [] value = "5" -> Ok("Five")
      [] value = "6" -> Ok("Six")   [] value = "7" -> Ok("Seven")
      [] value = "8" -> Ok("Eight") [] value = "9" -> Ok("Nine")
      [] value = "T" -> Ok("Ten")   [] value = "J" -> Ok("Jack")
      [] value = "Q" -> Ok("Queen") [] value = "K" -> Ok("King")
      [] value = "A" -> Ok("Ace")
      [] OTHER -> Err("UnknownLabel")

(* main.rs:52-56 *)
CardCounts(cards) ==
    [l \in {cards[i] : i \in 1..Len(cards)} |-> Cardinality({i \in 1..Len(cards) : cards[i] = l})]

(* main.rs:59-62: an entry of greatest count; which of several the HashMap   *)
(* iteration yields is not determined. (Joker, 0) when there is no entry.    *)
MaxLabels(card_counts) ==
    IF DOMAIN card_counts = {} THEN {"Joker"}
    ELSE {l \in DOMAIN card_counts :
            \A m \in DOMAIN card_counts : card_counts[m] <= card_counts[l]}

(* main.rs:66-69 *)
AddJokers(card_counts, max_label, num_jokers) ==
    [l \in DOMAIN card_counts \cup {max_label} |->
        IF l # max_label THEN card_counts[l]
        ELSE IF l \in DOMAIN card_counts THEN card_counts[l] + num_jokers
        ELSE num_jokers]

(* main.rs:74-75: the counts in ascending order *)
RECURSIVE SortedCounts(_, _)
SortedCounts(card_counts, n) ==
    IF n > NUM_CARDS_IN_HAND THEN <<>>
    ELSE [i \in 1..Cardinality({l \in DOMAIN card_counts : card_counts[l] = n}) |-> n]
         \o SortedCounts(card_counts, n + 1)

(* main.rs:77-86 *)
MatchCounts(counts) ==
    CASE counts = <<5>> -> Ok("FiveOfAKind")
      [] counts = <<1, 4>> -> Ok("FourOfAKind")
      [] counts = <<2, 3>> -> Ok("FullHouse")
      [] counts = <<1, 1, 3>> -> Ok("ThreeOfAKind")
      [] counts = <<1, 2, 2>> -> Ok("TwoPair")
      [] counts = <<1, 1, 1, 2>> -> Ok("OnePair")
      [] counts = <<1, 1, 1, 1, 1>> -> Ok("HighCard")
      [] OTHER -> Err("UnknownHandType")

(* main.rs:51-87: the results the iteration orders of the HashMap allow *)
determine_hand_type(cards) ==
    LET card_counts == CardCounts(cards)
    IN  IF "Joker" \in DOMAIN card_counts
        THEN LET rest == [l \in DOMAIN card_counts \ {"Joker"} |-> card_counts[l]]
             IN  {MatchCounts(SortedCounts(AddJokers(rest, max_label,
                                                     card_counts["Joker"]), 1)) :
                  max_label \in MaxLabels(rest)}
        ELSE {MatchCounts(SortedCounts(card_counts, 1))}

MkHand(t, c) == [hand_type |-> t, cards |-> c]

(* main.rs:37-48: Hand::from_str *)
hand_from_str(s) ==
    IF \E i \in 1..Len(s) : "err" \in DOMAIN try_from(s[i])
    THEN {Err("ParseLabelError")}
    ELSE IF Len(s) # NUM_CARDS_IN_HAND
    THEN {Err("NotFiveCards")}
    ELSE LET cards == [i \in 1..Len(s) |-> try_from(s[i]).ok]
         IN  {IF "ok" \in DOMAIN t THEN Ok(MkHand(t.ok, cards)) ELSE t :
              t \in determine_hand_type(cards)}

(* main.rs:15-31 *)
with_joker_rule(hand) ==
    LET cards == [i \in 1..Len(hand.cards) |->
                     IF hand.cards[i] = "Jack" THEN "Joker" ELSE hand.cards[i]]
    IN  {MkHand(t.ok, cards) : t \in determine_hand_type(cards)}

(* derive(Ord) on a fieldless enum: by discriminant *)
CmpVariant(variants, a, b) ==
    IF Discriminant(variants, a) < Discriminant(variants, b) THEN "Less"
    ELSE IF Discriminant(variants, a) > Discriminant(variants, b) THEN "Greater"
    ELSE "Equal"

(* Ord of [Label; 5]: lexicographic from the first element *)
RECURSIVE CmpCards(_, _, _)
CmpCards(a, b, i) ==
    IF i > Len(a) THEN "Equal"
    ELSE IF CmpVariant(Label, a[i], b[i]) # "Equal" THEN CmpVariant(Label, a[i], b[i])
    ELSE CmpCards(a, b, i + 1)

(* Mutant of cmp: the fields compared in the other order *)
cmp_CardsFirst(a, b) ==
    IF CmpCards(a.cards, b.cards, 1) # "Equal" THEN CmpCards(a.cards, b.cards, 1)
    ELSE CmpVariant(HandType, a.hand_type, b.hand_type)

(* main.rs:8-12: derive(Ord) on Hand compares the fields in declaration      *)
(* order, hand_type and then cards                                           *)
cmp(a, b) ==
    IF CmpVariant(HandType, a.hand_type, b.hand_type) # "Equal"
    THEN CmpVariant(HandType, a.hand_type, b.hand_type)
    ELSE CmpCards(a.cards, b.cards, 1)

(* The characters the hands are drawn over *)
HandChars == {"2", "J", "A"}

(* The hands of the test card_order (main.rs:218-219), one hand of each of   *)
(* the types three characters cannot form, and two texts that do not parse   *)
FixedHands ==
    {<<"3", "3", "3", "3", "2">>, <<"2", "A", "A", "A", "A">>,
     <<"7", "7", "8", "8", "8">>, <<"7", "7", "7", "8", "8">>,
     <<"2", "3", "4", "5", "A">>, <<"2", "2", "J", "Q", "K">>,
     <<"2", "3", "4", "5">>, <<"2", "3", "4", "5", "X">>}

HandTexts == [1..NUM_CARDS_IN_HAND -> HandChars] \cup FixedHands

InitHand ==
    /\ \E a \in HandTexts, b \in HandTexts : hands = <<a, b>>
    /\ ordering = None
    /\ input = <<>>
    /\ parsed = None
    /\ lookup = None
    /\ heat_loss_map = None
    /\ start = lava_pool_position
    /\ goal = lava_pool_position
    /\ min_blocks_straight = 0
    /\ max_blocks_straight = 0
    /\ dist = <<>>
    /\ heap = EmptyBag
    /\ state = NoState
    /\ next_states = <<>>
    /\ expanded = FALSE
    /\ pops = 0
    /\ closed = {}
    /\ module_network = None
    /\ reset_done = FALSE
    /\ pc = "hands"
    /\ result = None
    /\ SingleCall

search ==
    <<args, dist, heap, state, next_states, expanded, pops, closed, result, calls,
      net>>

(* main.rs:171: both hands are parsed and unwrapped *)
ParseHands ==
    /\ pc = "hands"
    /\ \E a \in hand_from_str(hands[1]), b \in hand_from_str(hands[2]) :
        IF "ok" \in DOMAIN a /\ "ok" \in DOMAIN b
        THEN hands' = <<a.ok, b.ok>> /\ pc' = "parsed_hands"
        ELSE pc' = "panic" /\ UNCHANGED hands
    /\ UNCHANGED <<search, input, parsed, lookup, ordering>>

(* main.rs:186-189 *)
WithJokerRule ==
    /\ pc = "parsed_hands"
    /\ \E a \in with_joker_rule(hands[1]), b \in with_joker_rule(hands[2]) :
        hands' = <<a, b>>
    /\ pc' = "joker_hands"
    /\ UNCHANGED <<search, input, parsed, lookup, ordering>>

(* main.rs:179 and 191: a.0.cmp(&b.0) *)
CompareHands ==
    /\ pc \in {"parsed_hands", "joker_hands"}
    /\ ordering' = Some(cmp(hands[1], hands[2]))
    /\ pc' = "compared"
    /\ UNCHANGED <<search, input, parsed, lookup, hands>>

NextHand == ParseHands \/ WithJokerRule \/ CompareHands

SpecHand == InitHand /\ [][NextHand]_vars

----------------------------------------------------------------------------
(* Day 20 (src/20/src/main.rs): the ModuleNetwork, push_button and reset.    *)
(* A network text is modelled by what the first pass of from_str             *)
(* (main.rs:133-164) makes of it: one (module_name, module_type_str,         *)
(* connections) per line.                                                    *)

BROADCASTER_NAME == "broadcaster"

(* main.rs:220 and 274 *)
INITIAL_STATE == "Off"

DEFAULT_PULSE == "Low"

(* Broadcast::new, FlipFlop::new (main.rs:223-227), Conjunction::new followed *)
(* by connect for every line that lists the module (main.rs:173-183, 276-278) *)
NewModule(intermediate_parse, i) ==
    CASE intermediate_parse[i].module_type_str = BROADCASTER_NAME ->
            [kind |-> "Broadcast"]
      [] intermediate_parse[i].module_type_str = "%" ->
            [kind |-> "FlipFlop", state |-> INITIAL_STATE]
      [] intermediate_parse[i].module_type_str = "&" ->
            [kind |-> "Conjunction",
             memory |-> [m \in {intermediate_parse[j].module_name :
                                  j \in {j \in 1..Len(intermediate_parse) :
                                           \E c \in 1..Len(intermediate_parse[j].connections) :
                                               intermediate_parse[j].connections[c] =
                                                   intermediate_parse[i].module_name}}
                         |-> DEFAULT_PULSE]]

(* The last line of a name: HashMap::collect keeps the later of two entries *)
LastLine(intermediate_parse, name) ==
    CHOOSE i \in 1..Len(intermediate_parse) :
        /\ intermediate_parse[i].module_name = name
        /\ \A j \in 1..Len(intermediate_parse) :
              intermediate_parse[j].module_name = name => j <= i

(* main.rs:166-199 and ModuleNetwork::new (main.rs:52-60) *)
network_from_str(intermediate_parse) ==
    IF \E i \in 1..Len(intermediate_parse) :
          intermediate_parse[i].module_type_str \notin {BROADCASTER_NAME, "%", "&"}
    THEN Err("UnknownModuleType")
    ELSE LET names == {intermediate_parse[i].module_name : i \in 1..Len(intermediate_parse)}
         IN  Ok([modules |-> [n \in names |->
                                NewModule(intermediate_parse,
                                          LastLine(intermediate_parse, n))],
                 connections |-> [n \in names |->
                                    intermediate_parse[LastLine(intermediate_parse, n)]
                                        .connections],
                 total_low_pulses |-> 0,
                 total_high_pulses |-> 0,
                 total_button_pushes |-> 0])

(* Module::process: Broadcast (main.rs:318-320), FlipFlop (main.rs:231-245),  *)
(* Conjunction (main.rs:282-291); the module afterwards and the pulse it      *)
(* sends                                                                      *)
process(module, from, pulse) ==
    CASE module.kind = "Broadcast" -> [module |-> module, pulse |-> Some(pulse)]
      [] module.kind = "FlipFlop" ->
            IF pulse = "High" THEN [module |-> module, pulse |-> None]
            ELSE IF module.state = "On"
            THEN [module |-> [module EXCEPT !.state = "Off"], pulse |-> Some("Low")]
            ELSE [module |-> [module EXCEPT !.state = "On"], pulse |-> Some("High")]
      [] module.kind = "Conjunction" ->
            IF from \notin DOMAIN module.memory
            THEN Panic("called Option::unwrap() on a None value")
            ELSE LET memory == [module.memory EXCEPT ![from] = pulse]
                 IN  [module |-> [module EXCEPT !.memory = memory],
                      pulse |-> IF \A m \in DOMAIN memory : memory[m] = "High"
                                THEN Some("Low") ELSE Some("High")]

(* main.rs:74-77 *)
CountPulse(network, pulse) ==
    IF pulse = "High"
    THEN [network EXCEPT !.total_high_pulses = @ + 1]
    ELSE [network EXCEPT !.total_low_pulses = @ + 1]

(* main.rs:96-98 *)
PulsesTo(next_receivers, receiver, next_pulse) ==
    [i \in 1..Len(next_receivers) |->
        [sender |-> receiver, receiver |-> next_receivers[i], pulse |-> next_pulse]]

(* main.rs:73-101: the while loop over pulse_queue. A loop that has not      *)
(* emptied the queue after fuel pulses is reported as still running.         *)
RECURSIVE RunQueue(_, _, _)
RunQueue(network, pulse_queue, fuel) ==
    IF pulse_queue = <<>> THEN [status |-> "returned", network |-> network]
    ELSE IF fuel = 0 THEN [status |-> "running", network |-> network]
    ELSE LET sent    == Head(pulse_queue)
             counted == CountPulse(network, sent.pulse)
         IN  IF sent.receiver \notin DOMAIN counted.modules
             THEN RunQueue(counted, Tail(pulse_queue), fuel - 1)
             ELSE LET r == process(counted.modules[sent.receiver], sent.sender, sent.pulse)
                  IN  IF "panic" \in DOMAIN r
                      THEN [status |-> "panic", network |-> counted]
                      ELSE LET after == [counted EXCEPT !.modules[sent.receiver] = r.module]
                           IN  IF r.pulse = None
                               THEN RunQueue(after, Tail(pulse_queue), fuel - 1)
                               ELSE RunQueue(after,
                                             Tail(pulse_queue) \o
                                                 PulsesTo(after.connections[sent.receiver],
                                                          sent.receiver, r.pulse.some),
                                             fuel - 1)

(* main.rs:62-102 *)
push_button(network) ==
    RunQueue([network EXCEPT !.total_button_pushes = @ + 1],
             <<[sender |-> "button", receiver |-> BROADCASTER_NAME, pulse |-> "Low"]>>,
             MaxPulses)

(* Mutant of module_reset: a conjunction keeps what it remembers *)
module_reset_KeepMemory(module) ==
    CASE module.kind = "Broadcast" -> module
      [] module.kind = "FlipFlop" -> [module EXCEPT !.state = INITIAL_STATE]
      [] module.kind = "Conjunction" -> module

(* Module::reset: Broadcast (main.rs:322), FlipFlop (main.rs:247-249),       *)
(* Conjunction (main.rs:293-297)                                             *)
module_reset(module) ==
    CASE module.kind = "Broadcast" -> module
      [] module.kind = "FlipFlop" -> [module EXCEPT !.state = INITIAL_STATE]
      [] module.kind = "Conjunction" ->
            [module EXCEPT !.memory = [m \in DOMAIN module.memory |-> DEFAULT_PULSE]]

(* main.rs:112-120 *)
reset(network) ==
    [network EXCEPT !.modules = [n \in DOMAIN network.modules |->
                                   module_reset(network.modules[n])],
                    !.total_low_pulses = 0,
                    !.total_high_pulses = 0,
                    !.total_button_pushes = 0]

(* The connection lists of one or two different names *)
TargetLists(S) ==
    {<<x>> : x \in S} \cup {t \in S \X S : t[1] # t[2]}

Line(name, type, connections) ==
    [module_name |-> name, module_type_str |-> type, connections |-> connections]

(* The broadcaster and the modules a and b, each a flip-flop or a            *)
(* conjunction, connected to each other and to the untyped module output     *)
NetworkTexts ==
    {<<Line(BROADCASTER_NAME, BROADCASTER_NAME, t0), Line("a", ka, ta), Line("b", kb, tb)>> :
        t0 \in TargetLists({"a", "b"}),
        ka \in {"%", "&"}, ta \in TargetLists({"a", "b", "output"}),
        kb \in {"%", "&"}, tb \in TargetLists({"a", "b", "output"})}

InitNet ==
    /\ input \in NetworkTexts
    /\ module_network = None
    /\ reset_done = FALSE
    /\ parsed = None
    /\ lookup = None
    /\ hands = <<>>
    /\ ordering = None
    /\ heat_loss_map = None
    /\ start = lava_pool_position
    /\ goal = lava_pool_position
    /\ min_blocks_straight = 0
    /\ max_blocks_straight = 0
    /\ dist = <<>>
    /\ heap = EmptyBag
    /\ state = NoState
    /\ next_states = <<>>
    /\ expanded = FALSE
    /\ pops = 0
    /\ closed = {}
    /\ pc = "network_text"
    /\ result = None
    /\ SingleCall

hunt ==
    <<args, dist, heap, state, next_states, expanded, pops, closed, result, calls,
      texts>>

(* main.rs:335: input.parse().unwrap() *)
ParseNetwork ==
    /\ pc = "network_text"
    /\ IF "ok" \in DOMAIN network_from_str(input)
       THEN module_network' = network_from_str(input).ok /\ pc' = "network"
       ELSE pc' = "panic" /\ UNCHANGED module_network
    /\ UNCHANGED <<hunt, reset_done>>

(* main.rs:339 and 353: one call of push_button *)
PushButton ==
    /\ pc = "network"
    /\ module_network.total_button_pushes < MaxPushes
    /\ module_network' = push_button(module_network).network
    /\ pc' = CASE push_button(module_network).status = "returned" -> "network"
              [] push_button(module_network).status = "running" -> "running"
              [] OTHER -> "panic"
    /\ UNCHANGED <<hunt, reset_done>>

(* main.rs:350 *)
Reset ==
    /\ pc = "network"
    /\ ~reset_done
    /\ module_network' = reset(module_network)
    /\ reset_done' = TRUE
    /\ UNCHANGED <<hunt, pc>>

NextNet == ParseNetwork \/ PushButton \/ Reset

SpecNet == InitNet /\ [][NextNet]_vars

----------------------------------------------------------------------------
(* One call of get_next_states (main.rs:220-290) on arguments of its types *)

(* State values: the initial state, and states with a direction and a run   *)
(* of 1..MaxMax or of 255 cells                                             *)
ArgStates(map) ==
    {MkState(p, t, NoDirection, 0) : p \in GridPositions(map), t \in {0, MaxCost}}
    \cup {MkState(p, t, d, r) : p \in GridPositions(map), t \in {0, MaxCost},
                                d \in Direction, r \in (1..MaxMax) \cup {U8Max}}

InitFn ==
    /\ heat_loss_map \in {m \in Maps : Cells(m) > MaxFreeCells}
    /\ state \in ArgStates(heat_loss_map)
    /\ min_blocks_straight \in 0..MaxMin
    /\ max_blocks_straight \in (0..MaxMax) \cup {U8Max}
    /\ start = lava_pool_position
    /\ goal = machine_parts_factory_position(heat_loss_map)
    /\ dist = <<>>
    /\ heap = EmptyBag
    /\ next_states = <<>>
    /\ expanded = FALSE
    /\ pops = 0
    /\ closed = {}
    /\ module_network = None
    /\ reset_done = FALSE
    /\ pc = "call"
    /\ result = None
    /\ SingleCall
    /\ NoText

CallGetNextStates ==
    /\ pc = "call"
    /\ \E build \in (IF Overflows(heat_loss_map, state, min_blocks_straight)
                      THEN {"checked", "wrapping"} ELSE {"wrapping"}) :
        IF build = "checked"
        THEN /\ pc' = "panic"
             /\ UNCHANGED <<next_states, expanded>>
        ELSE /\ next_states' = get_next_states(heat_loss_map, state, min_blocks_straight,
                                               max_blocks_straight)
             /\ expanded' = TRUE
             /\ pc' = "fn_returned"
    /\ UNCHANGED <<args, dist, heap, state, pops, closed, result, calls, texts, net>>

NextFn == CallGetNextStates

SpecFn == InitFn /\ [][NextFn]_vars

----------------------------------------------------------------------------
(* The augmented graph: its nodes are State values, its edges the            *)
(* transitions get_next_states generates                                     *)

Range(seq) == {seq[i] : i \in 1..Len(seq)}

(* Among states of one key, those of least accumulated cost *)
Cheapest(S) ==
    {s \in S : \A t \in S : StateKey(t) = StateKey(s)
                               => s.total_heat_loss <= t.total_heat_loss}

(* Label correcting: best maps each key reached so far to the least cost of  *)
(* a walk found to it, frontier holds the states whose cost fell in the last *)
(* round. Ends when a round lowers no cost.                                  *)
RECURSIVE SettleFor(_, _, _, _)
SettleFor(best, frontier, min_run, max_run) ==
    IF frontier = {} THEN best
    ELSE LET reached == UNION {Range(get_next_states(heat_loss_map, s,
                                                     min_run, max_run)) :
                               s \in frontier}
             lower == Cheapest({n \in reached :
                                  \/ StateKey(n) \notin DOMAIN best
                                  \/ n.total_heat_loss < best[StateKey(n)]})
             cost == [k \in {StateKey(n) : n \in lower} |->
                         (CHOOSE n \in lower : StateKey(n) = k).total_heat_loss]
         IN  SettleFor([k \in DOMAIN best \cup DOMAIN cost |->
                           IF k \in DOMAIN cost THEN cost[k] ELSE best[k]],
                       lower, min_run, max_run)

Settle(best, frontier) ==
    SettleFor(best, frontier, min_blocks_straight, max_blocks_straight)

(* The least cost of a walk from the start to each key a walk reaches *)
WalkCost ==
    Settle(DistInsert(<<>>, initial_state(start), 0), {initial_state(start)})

(* The ends of walks from the start that lie on the goal with a run of at    *)
(* least min_blocks_straight                                                 *)
GoalEnds(cost) ==
    {k \in DOMAIN cost :
        k.position = goal /\ k.distance_in_current_direction >= min_blocks_straight}

LeastOf(cost, keys) ==
    IF keys = {} THEN None
    ELSE Some(CHOOSE c \in {cost[k] : k \in keys} : \A k \in keys : c <= cost[k])

MinGoalCost == LeastOf(WalkCost, GoalEnds(WalkCost))

WellFormedCall == InGrid(heat_loss_map, start) /\ InGrid(heat_loss_map, goal)

(* C1: for a start and a goal inside the grid, shortest_path returns the     *)
(* least total cost of a walk of the augmented graph from the start to the   *)
(* goal position that ends with a run of at least min_blocks_straight, and   *)
(* None exactly when there is no such walk.                                  *)
C1_ReturnsMinimum ==
    (pc = "returned" /\ WellFormedCall) => result = MinGoalCost

C1_Witness ==
    /\ pc = "returned"
    /\ WellFormedCall
    /\ result # None
    /\ result.some > 0
    /\ min_blocks_straight > 0
    /\ Cardinality(DOMAIN dist) > 4

----------------------------------------------------------------------------
(* Grid geometry, stated without the program's functions *)

Opposite(d) ==
    CASE d = "Up" -> "Down" [] d = "Down" -> "Up"
      [] d = "Left" -> "Right" [] d = "Right" -> "Left"

Perpendicular(d) ==
    IF d \in {"Up", "Down"} THEN {"Left", "Right"} ELSE {"Up", "Down"}

DeltaX(d) == CASE d = "Left" -> -1 [] d = "Right" -> 1 [] OTHER -> 0

DeltaY(d) == CASE d = "Up" -> -1 [] d = "Down" -> 1 [] OTHER -> 0

DestInGrid(map, position, d) ==
    /\ position.x + DeltaX(d) \in 0..(map.width - 1)
    /\ position.y + DeltaY(d) \in 0..(map.height - 1)

(* get_next_states returned for `state`, and what it returned *)
Returned == expanded /\ pc # "panic"

HasDirection == state # NoState /\ state.direction \in Direction

(* A successor that entered the adjacent cell in direction d *)
Emitted(d) ==
    {n \in Range(next_states) :
        /\ n.direction = d
        /\ n.position.x = state.position.x + DeltaX(d)
        /\ n.position.y = state.position.y + DeltaY(d)}

----------------------------------------------------------------------------
(* C2 as written: from a state with direction d and run r the straight      *)
(* successor (direction d, run r + 1) is emitted exactly when r < max_run    *)
(* and the destination cell is inside the grid.                              *)
C2_StraightIffBelowCap ==
    (Returned /\ HasDirection) =>
        ((\E n \in Emitted(state.direction) :
              n.distance_in_current_direction = state.distance_in_current_direction + 1)
         <=> /\ state.distance_in_current_direction < max_blocks_straight
             /\ DestInGrid(heat_loss_map, state.position, state.direction))

(* C2 amended: the straight successor (direction d, run r + 1) is emitted    *)
(* exactly when r + 1 < max_run and the destination cell is inside the grid; *)
(* the longest legal run is max_run - 1 cells.                               *)
C2_StraightIffNextBelowCap ==
    (Returned /\ HasDirection) =>
        /\ (\E n \in Emitted(state.direction) :
                n.distance_in_current_direction = state.distance_in_current_direction + 1)
           <=> /\ state.distance_in_current_direction + 1 < max_blocks_straight
               /\ DestInGrid(heat_loss_map, state.position, state.direction)
        /\ \A n \in Emitted(state.direction) :
               n.distance_in_current_direction = state.distance_in_current_direction + 1

C2_Witness ==
    /\ Returned /\ HasDirection
    /\ pc = "loop"
    /\ state.distance_in_current_direction + 1 < max_blocks_straight
    /\ Emitted(state.direction) # {}

IsInitialState == state # NoState /\ state.direction = NoDirection

(* C4 as written: from the start state a successor with run 1 is emitted     *)
(* for each direction whose adjacent cell is inside the grid, for every      *)
(* min_run and every positive max_run; stated here for a start inside the    *)
(* grid.                                                                     *)
C4_FirstMoveAnyPositiveCap ==
    (Returned /\ IsInitialState /\ max_blocks_straight > 0
        /\ InGrid(heat_loss_map, state.position)) =>
        \A d \in Direction :
            DestInGrid(heat_loss_map, state.position, d) =>
                \E n \in Emitted(d) : n.distance_in_current_direction = 1

(* C4 amended: from the start state a successor with run 1 is emitted for    *)
(* each direction whose adjacent cell is inside the grid and for no other,   *)
(* for every min_run and every max_run >= 2; with max_run 0 or 1 no          *)
(* successor is emitted.                                                     *)
C4_FirstMoveCapAboveOne ==
    (Returned /\ IsInitialState) =>
        IF max_blocks_straight >= 2
        THEN \A d \in Direction :
                /\ DestInGrid(heat_loss_map, state.position, d) =>
                       \E n \in Emitted(d) : n.distance_in_current_direction = 1
                /\ ~DestInGrid(heat_loss_map, state.position, d) => Emitted(d) = {}
                /\ \A n \in Emitted(d) : n.distance_in_current_direction = 1
        ELSE next_states = <<>>

C4_Witness ==
    /\ Returned /\ IsInitialState
    /\ pc = "loop"
    /\ min_blocks_straight > 0
    /\ max_blocks_straight >= 2
    /\ Len(next_states) >= 2

(* C5: no successor of an expanded state reverses its direction.            *)
C5_NoReversal ==
    (Returned /\ HasDirection) =>
        \A n \in Range(next_states) : n.direction # Opposite(state.direction)

C5_Witness ==
    /\ Returned /\ HasDirection
    /\ pc = "loop"
    /\ Len(next_states) = 3

----------------------------------------------------------------------------
(* C6: a bad configuration (min_run > max_run, max_run not positive, start  *)
(* or goal outside the grid) is rejected before any state is explored, and   *)
(* the call does not answer it with the None of an unreachable goal.         *)
BadConfiguration ==
    \/ min_blocks_straight > max_blocks_straight
    \/ max_blocks_straight <= 0
    \/ ~InGrid(heat_loss_map, start)
    \/ ~InGrid(heat_loss_map, goal)

C6_RejectsBadConfiguration ==
    BadConfiguration =>
        /\ state = NoState
        /\ ~(pc = "returned" /\ result = None)

(* The (position, direction, run) triples a search can hold: the initial   *)
(* one, and for each cell and direction the runs of 1..max_run - 1 cells     *)
TripleCount ==
    1 + Cells(heat_loss_map) * Cardinality(Direction)
          * (IF max_blocks_straight > 1 THEN max_blocks_straight - 1 ELSE 0)

(* The guards of Begin, LoopIteration and QueueEmpty: a step can be taken *)
CanStep ==
    \/ pc = "start"
    \/ pc = "loop" /\ (heap = EmptyBag \/ PopChoices(heap) # {})

(* C7: every call ends by returning. The loop pops at most once for each     *)
(* triple, and until the call has returned a step can be taken: no step      *)
(* panics and none is stuck.                                                 *)
C7_Terminates ==
    /\ pops <= TripleCount
    /\ pc = "returned" \/ CanStep

C7_Witness ==
    /\ pc = "returned"
    /\ result = None
    /\ heap = EmptyBag
    /\ pops > 4

(* C8: when start = goal and min_run = 0 the call returns Some(0) at its     *)
(* first pop, without expanding any state.                                   *)
C8_StartIsGoal ==
    (start = goal /\ min_blocks_straight = 0 /\ state # NoState) =>
        /\ pc = "returned"
        /\ result = Some(0)
        /\ state = initial_state(start)
        /\ ~expanded
        /\ DOMAIN dist = {StateKey(initial_state(start))}
        /\ heap = EmptyBag

C8_Witness ==
    /\ start = goal /\ min_blocks_straight = 0
    /\ pc = "returned"
    /\ Cells(heat_loss_map) = 1
    /\ max_blocks_straight = 0

(* The 3x3 map of all-1 cells with start (0,0) and goal (2,2) *)
ScenarioGrid ==
    /\ heat_loss_map.width = 3 /\ heat_loss_map.height = 3
    /\ \A i \in 1..9 : heat_loss_map.values[i] = 1
    /\ start = Pos(0, 0)
    /\ goal = Pos(2, 2)

(* C9: on the scenario grid with min_run 0 and max_run 3 the call returns    *)
(* Some(4).                                                                  *)
C9_ScenarioA ==
    (ScenarioGrid /\ min_blocks_straight = 0 /\ max_blocks_straight = 3
        /\ pc = "returned") => result = Some(4)

C9_Witness ==
    /\ ScenarioGrid /\ min_blocks_straight = 0 /\ max_blocks_straight = 3
    /\ pc = "returned"
    /\ result # None

(* C10 as written: on the scenario grid with min_run 2 and max_run 2 the     *)
(* call returns the cost 4 of a path of runs of exactly 2 cells; right,      *)
(* right, down, down is such a path, so None is not returned.                *)
C10_ScenarioB ==
    (ScenarioGrid /\ min_blocks_straight = 2 /\ max_blocks_straight = 2
        /\ pc = "returned") => result = Some(4)

(* C10 amended: on the scenario grid with min_run 2 and max_run 2 the call   *)
(* returns None after expanding the start state and its two successors: a    *)
(* run may not reach 2 cells and a turn needs a run of 2.                    *)
C10_ScenarioBUnreachable ==
    (ScenarioGrid /\ min_blocks_straight = 2 /\ max_blocks_straight = 2
        /\ pc = "returned") =>
        /\ result = None
        /\ Cardinality(DOMAIN dist) = 3
        /\ \A k \in DOMAIN dist : k.distance_in_current_direction <= 1

C10_Witness ==
    /\ ScenarioGrid /\ min_blocks_straight = 2 /\ max_blocks_straight = 2
    /\ pc = "returned"
    /\ state # NoState
    /\ state.distance_in_current_direction = 1

----------------------------------------------------------------------------
(* A map of one row or of one column, searched from one end to the other *)

OneLine == heat_loss_map.height = 1 \/ heat_loss_map.width = 1

EndToEnd ==
    /\ WellFormedCall
    /\ {start, goal} = {lava_pool_position,
                        machine_parts_factory_position(heat_loss_map)}

MovesNeeded == Cells(heat_loss_map) - 1

(* C11: on a map of one row or one column with the start at one end and the  *)
(* goal at the other, a call that needs more moves than max_blocks_straight  *)
(* returns None, never a cost.                                               *)
C11_CorridorTooLong ==
    (pc = "returned" /\ OneLine /\ EndToEnd /\ MovesNeeded > max_blocks_straight)
        => result = None

(* The search moved along the corridor before it gave up *)
C11_Witness ==
    /\ pc = "returned"
    /\ OneLine
    /\ EndToEnd
    /\ MovesNeeded > max_blocks_straight
    /\ result = None
    /\ pops > 1

----------------------------------------------------------------------------
(* C12: a second call of shortest_path with the arguments of a first call    *)
(* returns the value the first call returned, whatever order the heap yields *)
(* entries of equal cost in, in either call.                                 *)
C12_SameResultAgain ==
    (pc = "returned" /\ earlier # None) => result = earlier.some

(* Both calls returned a cost, and the second one had entries of equal cost  *)
(* to choose from                                                            *)
C12_Witness ==
    /\ pc = "returned"
    /\ earlier # None
    /\ result # None
    /\ result = earlier.some
    /\ pops > 3

----------------------------------------------------------------------------
(* The value a call with the bounds min_run and max_run returns when it runs *)
(* alone: by C1 the least goal cost of its own augmented graph               *)
MinGoalCostFor(min_run, max_run) ==
    LET cost == SettleFor(DistInsert(<<>>, initial_state(start), 0),
                          {initial_state(start)}, min_run, max_run)
        ends == {k \in DOMAIN cost :
                    k.position = goal /\ k.distance_in_current_direction >= min_run}
    IN  LeastOf(cost, ends)

BothReturned == pc = "returned" /\ other # None /\ other.pc = "returned"

(* C13: two searches with different run bounds on the same HeatLossMap,      *)
(* their iterations interleaved in any order, each return what they return   *)
(* when run alone; a step of one leaves the table and the queue of the other *)
(* as they were, and no step changes the HeatLossMap.                        *)
C13_Interleaved ==
    /\ [](BothReturned =>
            /\ result = MinGoalCostFor(min_blocks_straight, max_blocks_straight)
            /\ other.result = MinGoalCostFor(other.min_blocks_straight,
                                             other.max_blocks_straight))
    /\ [][/\ heat_loss_map' = heat_loss_map
          /\ (other' # other => UNCHANGED <<dist, heap, result>>)
          /\ (<<dist, heap, result>>' # <<dist, heap, result>> => other' = other)]_vars

(* Both calls explored the map and returned, the first one a cost and the   *)
(* second one, under its own bounds, another value                          *)
C13_Witness ==
    /\ BothReturned
    /\ result # None
    /\ result # other.result
    /\ pops > 2
    /\ Cardinality(DOMAIN other.dist) > 1

----------------------------------------------------------------------------
(* The rows of the text: its non-empty lines *)

InputRows == NonEmptyLines(input)

Ragged == \E i \in 1..Len(InputRows) : Len(InputRows[i]) # Len(InputRows[1])

Rectangular(map) == Len(map.values) = map.width * map.height

(* C14: HeatLossMap::get returns None for every position with x >= width or  *)
(* y >= height, and for every position inside the grid Some of the cost of   *)
(* the cell at row y, column x of the parsed input.                          *)
C14_GetReturnsCell ==
    lookup # None =>
        IF InGrid(heat_loss_map, lookup.position)
        THEN /\ lookup.position.x < Len(InputRows[lookup.position.y + 1])
             /\ lookup.value =
                    Some(ParseChar(InputRows[lookup.position.y + 1]
                                            [lookup.position.x + 1]).some)
        ELSE lookup.value = None

(* C14 on the maps whose rows have one length *)
GetOnRectangular ==
    (lookup # None /\ Rectangular(heat_loss_map)) => C14_GetReturnsCell

(* C15: from_str returns Err for a text whose rows have unequal length and   *)
(* for a text without rows, so every HeatLossMap it returns has at least one *)
(* row and rows of one length.                                               *)
C15_RejectsRaggedAndEmpty ==
    parsed # None =>
        /\ (Ragged \/ InputRows = <<>>) => "err" \in DOMAIN parsed
        /\ "ok" \in DOMAIN parsed =>
               parsed.ok.height >= 1 /\ Rectangular(parsed.ok)

----------------------------------------------------------------------------
(* Strengths, weakest first, as the puzzle ranks them *)

TypeStrength(t) ==
    CASE t = "HighCard" -> 1 [] t = "OnePair" -> 2 [] t = "TwoPair" -> 3
      [] t = "ThreeOfAKind" -> 4 [] t = "FullHouse" -> 5 [] t = "FourOfAKind" -> 6
      [] t = "FiveOfAKind" -> 7

LabelStrength(l) ==
    CASE l = "Joker" -> 1 [] l = "Two" -> 2 [] l = "Three" -> 3 [] l = "Four" -> 4
      [] l = "Five" -> 5 [] l = "Six" -> 6 [] l = "Seven" -> 7 [] l = "Eight" -> 8
      [] l = "Nine" -> 9 [] l = "Ten" -> 10 [] l = "Jack" -> 11 [] l = "Queen" -> 12
      [] l = "King" -> 13 [] l = "Ace" -> 14

Differing(a, b) == {i \in 1..NUM_CARDS_IN_HAND : a.cards[i] # b.cards[i]}

FirstDiffering(a, b) == CHOOSE i \in Differing(a, b) : \A j \in Differing(a, b) : i <= j

Sign(x, y) == IF x < y THEN "Less" ELSE IF x > y THEN "Greater" ELSE "Equal"

(* C16: the ordering of two hands is decided by their hand types when these  *)
(* differ, the stronger type ranking higher whatever the cards; between      *)
(* hands of one type it is decided by the label strengths of the first       *)
(* position, counted from the first card, at which the cards differ.         *)
C16_HandOrdering ==
    pc = "compared" =>
        LET a == hands[1]
            b == hands[2]
        IN  IF a.hand_type # b.hand_type
            THEN ordering = Some(Sign(TypeStrength(a.hand_type),
                                      TypeStrength(b.hand_type)))
            ELSE IF Differing(a, b) = {}
            THEN ordering = Some("Equal")
            ELSE ordering = Some(Sign(LabelStrength(a.cards[FirstDiffering(a, b)]),
                                      LabelStrength(b.cards[FirstDiffering(a, b)])))

(* A hand of the stronger type ranks higher although its first card is the   *)
(* weaker one                                                                *)
C16_Witness ==
    /\ pc = "compared"
    /\ ordering = Some("Greater")
    /\ TypeStrength(hands[1].hand_type) > TypeStrength(hands[2].hand_type)
    /\ LabelStrength(hands[1].cards[1]) < LabelStrength(hands[2].cards[1])

(* The hands of the test card_order: 33332 ranks above 2AAAA *)
CardOrderTest ==
    (/\ pc = "compared"
     /\ hands[1].cards = <<"Three", "Three", "Three", "Three", "Two">>
     /\ hands[2].cards = <<"Two", "Ace", "Ace", "Ace", "Ace">>)
        => ordering = Some("Greater")

----------------------------------------------------------------------------
(* The queue and the table *)

(* Every queue entry carries the cost the table holds for its state: the     *)
(* table value of a state is never lowered after the state was pushed, so    *)
(* the queue holds no superseded entry                                       *)
NoSupersededEntry ==
    pc \in {"loop", "returned"} =>
        \A s \in BagToSet(heap) :
            /\ StateKey(s) \in DOMAIN dist
            /\ dist[StateKey(s)] = s.total_heat_loss
            /\ CopiesIn(s, heap) = 1

(* No popped entry was above the table's cost for its state *)
PoppedNeverStale ==
    (state # NoState /\ StateKey(state) \in DOMAIN dist) => ~IsStale(state, dist)

(* C18: when shortest_path has returned, with a cost or because the queue    *)
(* ran empty, every cost the table records is the least cost of a walk of    *)
(* the augmented graph from the start to that (position, direction, run).    *)
C18_TableOptimal ==
    pc = "returned" =>
        LET cheapest == WalkCost
        IN  \A k \in DOMAIN dist : k \in DOMAIN cheapest /\ dist[k] = cheapest[k]

(* A return on the goal that leaves recorded states in the queue *)
C18_Witness ==
    /\ pc = "returned"
    /\ result # None
    /\ heap # EmptyBag
    /\ Cardinality(DOMAIN dist) > 4

(* C19: each entry popped and not discarded as stale costs at least as much  *)
(* as the entry popped before it.                                            *)
C19_PopsNonDecreasing ==
    [][(/\ pc = "loop"
        /\ state # NoState
        /\ pops' = pops + 1
        /\ ~(StateKey(state') \in DOMAIN dist /\ IsStale(state', dist)))
          => state'.total_heat_loss >= state.total_heat_loss]_vars

(* Pops of rising cost *)
C19_Witness ==
    /\ pops >= 3
    /\ state # NoState
    /\ state.total_heat_loss > 1
    /\ heap # EmptyBag

(* C20: shortest_path returns a cost only from the iteration that popped a   *)
(* state on the goal with a run of at least min_blocks_straight, the cost of *)
(* that state; its only other return is None from the empty queue. A popped  *)
(* state on the goal with a shorter run does not end the search: it is       *)
(* expanded into its successors like any other state.                        *)
C20_GoalNeedsMinRun ==
    /\ (pc = "returned" /\ result # None) =>
          /\ state # NoState
          /\ state.position = goal
          /\ state.distance_in_current_direction >= min_blocks_straight
          /\ result = Some(state.total_heat_loss)
    /\ (pc = "returned" /\ result = None) => heap = EmptyBag
    /\ (/\ state # NoState
        /\ pc # "panic"
        /\ state.position = goal
        /\ state.distance_in_current_direction < min_blocks_straight) =>
          /\ expanded
          /\ next_states = get_next_states(heat_loss_map, state, min_blocks_straight,
                                           max_blocks_straight)
          /\ result = None

(* A state that entered the goal with too short a run was popped and        *)
(* expanded, and the search goes on                                         *)
C20_Witness ==
    /\ pc = "loop"
    /\ state # NoState
    /\ state.direction # NoDirection
    /\ state.position = goal
    /\ state.distance_in_current_direction < min_blocks_straight
    /\ next_states # <<>>
    /\ heap # EmptyBag

----------------------------------------------------------------------------
(* Relaxation: the for loop of main.rs:200-214 *)

(* The step is an iteration that reached the for loop *)
Expands == pops' = pops + 1 /\ expanded'

(* The table before the step has no entry for the successor, or a dearer one *)
Improves(n) ==
    \/ StateKey(n) \notin DOMAIN dist
    \/ n.total_heat_loss < dist[StateKey(n)]

(* C21: an expansion writes a successor to the table and pushes it to the    *)
(* queue if and only if the table has no entry for its (position, direction, *)
(* run) or records a strictly greater cost; a successor of equal or greater  *)
(* cost changes neither, and nothing but the written successors is added.    *)
C21_RelaxIffImproves ==
    [][Expands =>
        LET popped == AfterPop(heap, state')
            ns     == next_states'
        IN  /\ \A i \in 1..Len(ns) :
                 IF Improves(ns[i])
                 THEN /\ StateKey(ns[i]) \in DOMAIN dist'
                      /\ dist'[StateKey(ns[i])] = ns[i].total_heat_loss
                      /\ CopiesIn(ns[i], heap') = CopiesIn(ns[i], popped) + 1
                 ELSE /\ dist'[StateKey(ns[i])] = dist[StateKey(ns[i])]
                      /\ CopiesIn(ns[i], heap') = CopiesIn(ns[i], popped)
            /\ \A k \in DOMAIN dist' :
                 \/ \E i \in 1..Len(ns) : StateKey(ns[i]) = k
                 \/ k \in DOMAIN dist /\ dist'[k] = dist[k]
            /\ \A s \in BagToSet(heap') \cup BagToSet(popped) :
                 \/ \E i \in 1..Len(ns) : ns[i] = s
                 \/ CopiesIn(s, heap') = CopiesIn(s, popped)]_vars

(* The expansion wrote one successor and skipped another, dearer than the    *)
(* cost the table holds for its triple                                       *)
C21_Witness ==
    /\ expanded
    /\ \E i \in 1..Len(next_states) :
          /\ dist[StateKey(next_states[i])] = next_states[i].total_heat_loss
          /\ BagIn(next_states[i], heap)
    /\ \E i \in 1..Len(next_states) :
          dist[StateKey(next_states[i])] < next_states[i].total_heat_loss

----------------------------------------------------------------------------
(* The table *)

(* C22: across every step of one search no key leaves the table and the     *)
(* value stored for a key does not increase.                                *)
C22_TableOnlyGrows ==
    [][\A k \in DOMAIN dist : k \in DOMAIN dist' /\ dist'[k] <= dist[k]]_vars

(* The table grew over several expansions *)
C22_Witness ==
    /\ pc = "loop"
    /\ pops > 2
    /\ Cardinality(DOMAIN dist) > 5

SameTriple(a, b) ==
    /\ a.position = b.position
    /\ a.direction = b.direction
    /\ a.distance_in_current_direction = b.distance_in_current_direction

(* C23: the table holds at most one entry per (position, direction, run)    *)
(* triple: its keys carry no accumulated cost, and a successor that reaches  *)
(* a recorded triple at another cost finds that entry.                       *)
C23_OneEntryPerTriple ==
    /\ \A k1 \in DOMAIN dist : \A k2 \in DOMAIN dist : SameTriple(k1, k2) => k1 = k2
    /\ expanded =>
          \A i \in 1..Len(next_states) :
              Cardinality({k \in DOMAIN dist : SameTriple(k, next_states[i])}) = 1

(* A successor reached a recorded triple at a cost other than the recorded  *)
(* one                                                                      *)
C23_Witness ==
    /\ pc = "loop"
    /\ expanded
    /\ \E i \in 1..Len(next_states) :
          /\ StateKey(next_states[i]) \in DOMAIN dist
          /\ dist[StateKey(next_states[i])] # next_states[i].total_heat_loss

RECURSIVE SumFrom(_, _)
SumFrom(values, i) == IF i > Len(values) THEN 0 ELSE values[i] + SumFrom(values, i + 1)

(* C24: the start state is recorded at cost 0 and every successor costs its  *)
(* predecessor's cost plus the cost of the cell it enters; so along a        *)
(* corridor searched from its first cell to its last the returned cost is    *)
(* the sum of all cells but the first.                                       *)
C24_CostIsSumOfEnteredCells ==
    /\ pc \in {"loop", "returned"} =>
          /\ StateKey(initial_state(start)) \in DOMAIN dist
          /\ dist[StateKey(initial_state(start))] = 0
    /\ expanded =>
          \A i \in 1..Len(next_states) :
              next_states[i].total_heat_loss =
                  state.total_heat_loss + get(heat_loss_map, next_states[i].position).some
    /\ (/\ pc = "returned"
        /\ result # None
        /\ OneLine
        /\ start = lava_pool_position
        /\ goal = machine_parts_factory_position(heat_loss_map)) =>
          result = Some(SumFrom(heat_loss_map.values, 2))

(* A corridor whose first cell costs something, searched end to end *)
C24_Witness ==
    /\ pc = "returned"
    /\ result # None
    /\ OneLine
    /\ start = lava_pool_position
    /\ goal = machine_parts_factory_position(heat_loss_map)
    /\ Cells(heat_loss_map) > 2
    /\ heat_loss_map.values[1] > 0
    /\ result.some > 0

----------------------------------------------------------------------------
(* The states of the table and of the queue *)

(* The states recorded or queued, the initial state apart *)
Recorded ==
    (DOMAIN dist \cup {StateKey(s) : s \in BagToSet(heap)})
        \ {StateKey(initial_state(start))}

(* C25: every successor get_next_states returns lies inside the grid: a move *)
(* Left from x = 0 or Up from y = 0 yields none, a move past the right or    *)
(* the bottom edge is dropped; so every state of the table or the queue      *)
(* other than the start state lies inside the grid.                          *)
C25_SuccessorsInGrid ==
    /\ expanded =>
          /\ \A i \in 1..Len(next_states) : InGrid(heat_loss_map, next_states[i].position)
          /\ \A d \in Direction :
                ~DestInGrid(heat_loss_map, state.position, d) =>
                    \A i \in 1..Len(next_states) : next_states[i].direction # d
    /\ \A k \in Recorded : InGrid(heat_loss_map, k.position)

(* A state in the bottom right corner, heading Right below the cap, was     *)
(* expanded: its straight move leaves the grid, a turn stays inside         *)
C25_Witness ==
    /\ expanded
    /\ state.direction = "Right"
    /\ state.position = machine_parts_factory_position(heat_loss_map)
    /\ state.distance_in_current_direction + 1 < max_blocks_straight
    /\ next_states # <<>>

(* C26: every state of the table or the queue other than the initial one has *)
(* a direction and a run r with 1 <= r < max_blocks_straight, so the u8 sum  *)
(* r + 1 of its expansion stays within 255.                                  *)
C26_RunBelowCap ==
    /\ max_blocks_straight <= U8Max
    /\ \A k \in Recorded :
          /\ k.direction \in Direction
          /\ 1 <= k.distance_in_current_direction
          /\ k.distance_in_current_direction < max_blocks_straight
          /\ k.distance_in_current_direction + 1 <= U8Max
    /\ \A s \in BagToSet(heap) : ~Overflows(heat_loss_map, s, min_blocks_straight)
    /\ pc # "panic"

(* get_next_states on any State whose run is below the cap, the cap 255     *)
(* included, does not overflow (an invariant of SpecFn)                      *)
NoOverflowBelowCap ==
    (state # NoState /\ state.distance_in_current_direction < max_blocks_straight)
        => (~Overflows(heat_loss_map, state, min_blocks_straight) /\ pc # "panic")

(* A recorded state whose run is the longest the cap allows *)
C26_Witness ==
    /\ max_blocks_straight = MaxMax
    /\ \E k \in Recorded : k.distance_in_current_direction = max_blocks_straight - 1

(* C27: every state popped from the queue has a table entry whose value is  *)
(* at most the popped cost, so the lookup dist[&state] of main.rs:196 does   *)
(* not fail.                                                                 *)
C27_PoppedIsRecorded ==
    /\ state # NoState =>
          /\ StateKey(state) \in DOMAIN dist
          /\ dist[StateKey(state)] <= state.total_heat_loss
    /\ pc # "panic"

(* A popped state other than the initial one reached the staleness check *)
C27_Witness ==
    /\ state # NoState
    /\ state.direction # NoDirection
    /\ expanded
    /\ dist[StateKey(state)] = state.total_heat_loss
    /\ pops > 2

----------------------------------------------------------------------------
(* The frontier *)

Queued(k) ==
    \E s \in BagToSet(heap) : StateKey(s) = k /\ s.total_heat_loss = dist[k]

Closed(k) ==
    \E s \in closed : StateKey(s) = k /\ s.total_heat_loss = dist[k]

(* C28: at the start of every loop iteration each table entry has a queue   *)
(* entry for its state at exactly the recorded cost, or its state was       *)
(* popped and expanded at exactly that cost.                                *)
C28_FrontierComplete ==
    pc = "loop" => \A k \in DOMAIN dist : Queued(k) \/ Closed(k)

(* Some recorded states wait in the queue, others were expanded *)
C28_Witness ==
    /\ pc = "loop"
    /\ pops > 2
    /\ \E k \in DOMAIN dist : Queued(k) /\ ~Closed(k)
    /\ \E k \in DOMAIN dist : Closed(k) /\ ~Queued(k)

----------------------------------------------------------------------------
(* A search that has to leave its start and come back *)

ClosedWalkCall ==
    /\ start = goal
    /\ InGrid(heat_loss_map, start)
    /\ min_blocks_straight > 0

(* C29 as stated: when start = goal and min_run > 0 the call returns the     *)
(* cost of a cheapest closed walk that comes back with a run of at least     *)
(* min_run, or None when there is none, None on a single-cell grid, and      *)
(* never 0.                                                                  *)
C29_ClosedWalkNeverZero ==
    (ClosedWalkCall /\ pc = "returned") =>
        /\ result = MinGoalCost
        /\ Cells(heat_loss_map) = 1 => result = None
        /\ result # Some(0)

(* C29, corrected: when start = goal and min_run > 0 the initial state does  *)
(* not satisfy the goal; the call returns the cost of a cheapest closed walk *)
(* that comes back with a run of at least min_run, from a popped state that  *)
(* has moved, or None when there is no such walk, None on a single-cell      *)
(* grid. The cost is at least the cost of the start cell, which the walk     *)
(* enters last, and is 0 when the walk enters cells of cost 0 only.          *)
C29_ClosedWalk ==
    (ClosedWalkCall /\ pc = "returned") =>
        /\ result = MinGoalCost
        /\ Cells(heat_loss_map) = 1 => result = None
        /\ result # None =>
              /\ state.direction \in Direction
              /\ state.distance_in_current_direction >= min_blocks_straight
              /\ pops >= 5
              /\ result.some >= get(heat_loss_map, start).some

(* A closed walk was found and returned *)
C29_Witness ==
    /\ ClosedWalkCall
    /\ pc = "returned"
    /\ result # None
    /\ state.position = start
    /\ pops >= 5

----------------------------------------------------------------------------
(* Day 20: reset *)

(* The network as from_str built it *)
FreshNetwork == network_from_str(input).ok

(* n calls of push_button on a network *)
RECURSIVE PushTimes(_, _)
PushTimes(network, n) ==
    IF n = 0 THEN [status |-> "returned", network |-> network]
    ELSE LET before == PushTimes(network, n - 1)
         IN  IF before.status # "returned" THEN before
             ELSE push_button(before.network)

AllOff(network) ==
    \A n \in DOMAIN network.modules :
        network.modules[n].kind = "FlipFlop" => network.modules[n].state = "Off"

AllLow(network) ==
    \A n \in DOMAIN network.modules :
        network.modules[n].kind = "Conjunction" =>
            \A m \in DOMAIN network.modules[n].memory :
                network.modules[n].memory[m] = "Low"

(* C30: after ModuleNetwork::reset the network is as from_str built it:      *)
(* every flip-flop Off, every conjunction remembering Low for each input,    *)
(* the three counters 0; and after n calls of push_button that follow the    *)
(* reset the modules and the counters are those of n calls on the new        *)
(* network, whatever calls preceded the reset.                               *)
C30_ResetIsFresh ==
    (pc = "network" /\ reset_done) =>
        /\ module_network.total_button_pushes = 0 =>
              /\ AllOff(module_network)
              /\ AllLow(module_network)
              /\ module_network.total_low_pulses = 0
              /\ module_network.total_high_pulses = 0
              /\ module_network = FreshNetwork
        /\ PushTimes(FreshNetwork, module_network.total_button_pushes) =
              [status |-> "returned", network |-> module_network]

(* Pushes after a reset left a flip-flop On and a conjunction remembering   *)
(* High                                                                     *)
C30_Witness ==
    /\ pc = "network"
    /\ reset_done
    /\ module_network.total_button_pushes = MaxPushes
    /\ ~AllOff(module_network)
    /\ ~AllLow(module_network)

====
